---- MODULE Spec2Model ----
(***************************************************************************)
(* A model of solutions.py: the BlackScholes option pricer and the         *)
(* historical-simulation VaR class, their validating property setters,     *)
(* their derived quantities, and the exceptions they raise.                *)
(*                                                                         *)
(* Python values are records tagged with their Python type ("kind").       *)
(* Floating-point numbers are fixed-point: a finite float is an integer    *)
(* count of 1/Scale units, and the IEEE specials inf, -inf and nan are     *)
(* kept, with the arithmetic numpy gives them (a division by zero or a     *)
(* logarithm of a negative number warns and returns a special, it does not *)
(* raise).  Every operation rounds its result to the nearest unit, as a    *)
(* float operation rounds to the nearest float.                            *)
(***************************************************************************)
EXTENDS Integers, Sequences, FiniteSets, TLC

\* Fixed-point resolution of a float: 1/Scale.
Scale == 10 * 10 * 10

\* Longest rate series the model assigns.
MaxLen == 5

\* The two object references a caller holds.
Inst == {1, 2}

(***************************************************************************)
(* Python values                                                           *)
(***************************************************************************)
PyInt(k) == [kind |-> "int", n |-> k]
PyNone == [kind |-> "NoneType"]
PyStr(chars) == [kind |-> "str", s |-> chars]
PyList(xs) == [kind |-> "list", items |-> xs]
NdArray(dt, xs) == [kind |-> "ndarray", dtype |-> dt, items |-> xs]
DateTime(yy, mm, dd) == [kind |-> "datetime", y |-> yy, m |-> mm, d |-> dd]

Fin(k) == [kind |-> "float", c |-> "fin", n |-> k]
NaN == [kind |-> "float", c |-> "nan", n |-> 0]
PInf == [kind |-> "float", c |-> "inf", n |-> 1]
NInf == [kind |-> "float", c |-> "inf", n |-> -1]

\* isinstance(value, (str))
IsStr(v) == v.kind = "str"

\* isinstance(value, (int, float))
IsIntOrFloat(v) == v.kind \in {"int", "float"}

\* isinstance(value, np.ndarray): the container type only, whatever the dtype
IsNdArray(v) == v.kind = "ndarray"

(***************************************************************************)
(* Float arithmetic                                                        *)
(***************************************************************************)
Abs(k) == IF k < 0 THEN -k ELSE k

\* a / b rounded to the nearest integer (b # 0)
RDiv(a, b) ==
    LET q == (2 * Abs(a) + Abs(b)) \div (2 * Abs(b))
    IN IF (a < 0) = (b < 0) THEN q ELSE -q

\* The float a Python number stands for in arithmetic with a float.
AsFloat(v) == IF v.kind = "int" THEN Fin(v.n * Scale) ELSE v

IsNaN(a) == a.c = "nan"
IsInf(a) == a.c = "inf"
IsFin(a) == a.c = "fin"
IsZero(a) == a.c = "fin" /\ a.n = 0
\* -1 or 1; zero counts as positive (no negative zero arises in the model)
Sgn(a) == IF a.n < 0 THEN -1 ELSE 1
Inf(s) == IF s < 0 THEN NInf ELSE PInf

FNeg(a) == IF IsNaN(a) THEN NaN ELSE [a EXCEPT !.n = -a.n]

FAdd(a, b) ==
    IF IsNaN(a) \/ IsNaN(b) THEN NaN
    ELSE IF IsInf(a) THEN (IF IsInf(b) /\ b.n # a.n THEN NaN ELSE a)
    ELSE IF IsInf(b) THEN b
    ELSE Fin(a.n + b.n)

FSub(a, b) == FAdd(a, FNeg(b))

FMul(a, b) ==
    IF IsNaN(a) \/ IsNaN(b) THEN NaN
    ELSE IF IsInf(a) \/ IsInf(b)
         THEN (IF IsZero(a) \/ IsZero(b) THEN NaN ELSE Inf(Sgn(a) * Sgn(b)))
    ELSE Fin(RDiv(a.n * b.n, Scale))

FDiv(a, b) ==
    IF IsNaN(a) \/ IsNaN(b) THEN NaN
    ELSE IF IsInf(a) THEN (IF IsInf(b) THEN NaN ELSE Inf(Sgn(a) * Sgn(b)))
    ELSE IF IsInf(b) THEN Fin(0)
    ELSE IF b.n = 0 THEN (IF a.n = 0 THEN NaN ELSE Inf(Sgn(a)))
    ELSE Fin(RDiv(a.n * Scale, b.n))

\* Python's == and <= on floats: every comparison with nan is False
FEq(a, b) == ~IsNaN(a) /\ ~IsNaN(b) /\ a = b

FLe(a, b) ==
    /\ ~IsNaN(a) /\ ~IsNaN(b)
    /\ \/ (IsInf(a) /\ a.n < 0)
       \/ (IsInf(b) /\ b.n > 0)
       \/ (IsFin(a) /\ IsFin(b) /\ a.n <= b.n)

\* Working precision of the elementary functions: ten times finer than Scale.
WScale == 10 * Scale

\* sum_{k >= j} x^k / k! in working units, given the term t = x^(j-1)/(j-1)!
RECURSIVE ExpTail(_, _, _)
ExpTail(x, t, j) ==
    IF t = 0 \/ j > 24 THEN 0
    ELSE LET u == RDiv(t * x, j * WScale) IN u + ExpTail(x, u, j + 1)

\* e^x in working units, x in working units: halve the argument until it is
\* at most 1/2, then square back.
RECURSIVE ExpW(_)
ExpW(x) ==
    IF 2 * Abs(x) <= WScale
    THEN WScale + ExpTail(x, WScale, 1)
    ELSE LET h == ExpW(RDiv(x, 2))
             e == RDiv(h * h, WScale)
         IN  IF x % 2 = 0 THEN e
             ELSE RDiv(e * ExpW(x - 2 * RDiv(x, 2)), WScale)

\* np.exp
FExp(a) ==
    IF IsNaN(a) THEN NaN
    ELSE IF IsInf(a) THEN (IF a.n > 0 THEN PInf ELSE Fin(0))
    ELSE Fin(RDiv(ExpW(a.n * 10), 10))

\* sum_{k >= j, k odd} z^k / k in working units, given p = z^j
RECURSIVE AtanhTail(_, _, _)
AtanhTail(z, p, j) ==
    IF p = 0 \/ j > 60 THEN 0
    ELSE RDiv(p, j) +
         AtanhTail(z, RDiv(RDiv(p * z, WScale) * z, WScale), j + 2)

\* ln x in working units for x > 0 in working units: bring x into [1/2, 2]
\* by factors of 2, then ln x = 2 atanh((x - 1)/(x + 1)).
Ln2W == RDiv(6931 * WScale, 10000)

RECURSIVE LnW(_)
LnW(x) ==
    IF x > 2 * WScale THEN Ln2W + LnW(RDiv(x, 2))
    ELSE IF 2 * x < WScale THEN LnW(2 * x) - Ln2W
    ELSE LET z == RDiv((x - WScale) * WScale, x + WScale)
         IN  2 * AtanhTail(z, z, 1)

\* np.log
FLog(a) ==
    IF IsNaN(a) THEN NaN
    ELSE IF IsInf(a) THEN (IF a.n > 0 THEN PInf ELSE NaN)
    ELSE IF a.n < 0 THEN NaN
    ELSE IF a.n = 0 THEN NInf
    ELSE Fin(RDiv(LnW(a.n * 10), 10))

\* the integer nearest to the square root of k >= 0, by bisection on [lo, hi]
RECURSIVE ISqrt(_, _, _)
ISqrt(k, lo, hi) ==
    IF lo >= hi THEN lo
    ELSE LET mid == (lo + hi + 1) \div 2
         IN  IF mid * mid - mid < k THEN ISqrt(k, mid, hi)
             ELSE ISqrt(k, lo, mid - 1)

\* np.sqrt
FSqrt(a) ==
    IF IsNaN(a) THEN NaN
    ELSE IF IsInf(a) THEN (IF a.n > 0 THEN PInf ELSE NaN)
    ELSE IF a.n < 0 THEN NaN
    ELSE Fin(ISqrt(a.n * Scale, 0, a.n + Scale))

\* scipy.stats.norm.cdf for |x| < 4 in working units (Abramowitz-Stegun
\* 26.2.17), the result in working units.
PhiW(x) ==
    LET ax == Abs(x)
        t == RDiv(WScale * WScale, WScale + RDiv(2316 * ax, 10000))
        pdf == RDiv(3989 * ExpW(-((ax * ax) \div (2 * WScale))), 10000)
        h5 == RDiv(13303 * WScale, 10000)
        h4 == RDiv(h5 * t, WScale) - RDiv(18213 * WScale, 10000)
        h3 == RDiv(h4 * t, WScale) + RDiv(17815 * WScale, 10000)
        h2 == RDiv(h3 * t, WScale) - RDiv(3566 * WScale, 10000)
        h1 == RDiv(h2 * t, WScale) + RDiv(3194 * WScale, 10000)
        tail == RDiv(pdf * RDiv(h1 * t, WScale), WScale)
    IN  IF x >= 0 THEN WScale - tail ELSE tail

\* norm.cdf
FCdf(a) ==
    IF IsNaN(a) THEN NaN
    ELSE IF IsInf(a) THEN (IF a.n > 0 THEN Fin(Scale) ELSE Fin(0))
    ELSE IF a.n >= 4 * Scale THEN Fin(Scale)
    ELSE IF a.n <= -4 * Scale THEN Fin(0)
    ELSE Fin(RDiv(PhiW(a.n * 10), 10))

(***************************************************************************)
(* datetime.strptime(value, "%Y-%m-%d") and date subtraction               *)
(***************************************************************************)
DigitVal == [ch \in {"0", "1", "2", "3", "4", "5", "6", "7", "8", "9"} |->
               CASE ch = "0" -> 0 [] ch = "1" -> 1 [] ch = "2" -> 2 [] ch = "3" -> 3
                 [] ch = "4" -> 4 [] ch = "5" -> 5 [] ch = "6" -> 6 [] ch = "7" -> 7
                 [] ch = "8" -> 8 [] ch = "9" -> 9]

IsDigit(ch) == ch \in DOMAIN DigitVal

\* %m is 1[0-2]|0[1-9]|[1-9] and %d is 3[01]|[12]\d|0[1-9]|[1-9]| [1-9]:
\* the text of a field, one or two characters long, as a number, or 0 when
\* no alternative matches it.
TwoChar(t, hi) ==
    IF Len(t) = 1 THEN (IF IsDigit(t[1]) THEN DigitVal[t[1]] ELSE 0)
    ELSE IF Len(t) = 2 /\ IsDigit(t[2])
         THEN (IF IsDigit(t[1])
               THEN LET k == 10 * DigitVal[t[1]] + DigitVal[t[2]]
                    IN  IF k <= hi THEN k ELSE 0
               ELSE 0)
    ELSE 0

\* %d also takes a space and one digit
DayField(t) ==
    IF Len(t) = 2 /\ t[1] = " " /\ IsDigit(t[2]) THEN DigitVal[t[2]]
    ELSE TwoChar(t, 31)

IsLeap(y) == (y % 4 = 0 /\ y % 100 # 0) \/ y % 400 = 0

DaysInMonth(y, m) ==
    IF m = 2 THEN (IF IsLeap(y) THEN 29 ELSE 28)
    ELSE IF m \in {4, 6, 9, 11} THEN 30 ELSE 31

\* The parse of the text s (a sequence of characters): [ok, date].  The whole
\* text must match \d\d\d\d-<month>-<day>, and datetime(y, m, d) must exist.
strptime(s) ==
    LET n == Len(s)
        head == /\ n >= 8
                /\ \A k \in 1..4 : IsDigit(s[k])
                /\ s[5] = "-"
        ml == IF s[8] = "-" /\ TwoChar(SubSeq(s, 6, 7), 12) > 0 THEN 2
              ELSE IF s[7] = "-" /\ TwoChar(SubSeq(s, 6, 6), 12) > 0 THEN 1
              ELSE 0
        yy == 1000 * DigitVal[s[1]] + 100 * DigitVal[s[2]]
                + 10 * DigitVal[s[3]] + DigitVal[s[4]]
        mm == TwoChar(SubSeq(s, 6, 5 + ml), 12)
        dd == DayField(SubSeq(s, 7 + ml, n))
        bad == [ok |-> FALSE, date |-> PyNone]
    IN  IF ~head THEN bad
        ELSE IF ml = 0 \/ n < 7 + ml THEN bad
        ELSE IF yy < 1 \/ dd < 1 \/ dd > DaysInMonth(yy, mm) THEN bad
        ELSE [ok |-> TRUE, date |-> DateTime(yy, mm, dd)]

RECURSIVE DaysBeforeMonth(_, _)
DaysBeforeMonth(y, m) ==
    IF m = 1 THEN 0 ELSE DaysBeforeMonth(y, m - 1) + DaysInMonth(y, m - 1)

\* date.toordinal(): the day number of a date, 0001-01-01 being day 1
ToOrdinal(dt) ==
    LET y1 == dt.y - 1
    IN  365 * y1 + (y1 \div 4) - (y1 \div 100) + (y1 \div 400)
          + DaysBeforeMonth(dt.y, dt.m) + dt.d

\* (b - a).days
DaysBetween(a, b) == ToOrdinal(b) - ToOrdinal(a)

(***************************************************************************)
(* Outcomes: a setter or a query returns normally or raises.               *)
(***************************************************************************)
\* normal return of a setter: self after the assignment
Done(o) == [exc |-> "none", msg |-> <<>>, self |-> o]

\* raise e(m) in a method of o: self as it is at the raise
Raise(o, e, m) == [exc |-> e, msg |-> m, self |-> o]

\* normal return of a query
Return(o, v) == [exc |-> "none", msg |-> <<>>, val |-> v, self |-> o]

\* self._<f> = value
Store(o, f, value) == [o EXCEPT ![f] = value]

Unset == [kind |-> "unset"]

(***************************************************************************)
(* class BlackScholes                                                      *)
(***************************************************************************)
BSFields == <<"trade_date", "expiry_date", "S", "K", "r", "sigma">>

\* the object __init__ receives: no attribute is set yet
NewBlackScholes ==
    [cls |-> "BlackScholes", trade_date |-> Unset, expiry_date |-> Unset,
     S |-> Unset, K |-> Unset, r |-> Unset, sigma |-> Unset]

MsgDateNotStr == <<"trade_date", "should", "be", "a", "string">>
MsgDateFormat ==
    <<"trade_date", "should", "be", "correctly", "formmated", ":",
      "'%Y-%m-%d", "(", "e.g", "'2024-10-15'", ")">>
MsgS == <<"Spot", "price", "(", "S", ")", "must", "be", "an", "integer", "or", "float">>
MsgK == <<"Exercise", "price", "(", "K", ")", "must", "be", "an", "integer", "or", "float">>
MsgR == <<"Risk", "free", "rate", "(", "r", ")", "must", "be", "an", "integer", "or", "float">>
MsgSigma == <<"sigma", "must", "be", "an", "integer", "or", "float">>

trade_date_setter(o, value) ==
    IF ~IsStr(value) THEN Raise(o, "ValueError", MsgDateNotStr)
    ELSE LET p == strptime(value.s)
         IN  IF ~p.ok THEN Raise(o, "ValueError", MsgDateFormat)
             ELSE Done(Store(o, "trade_date", p.date))

\* the messages of this setter are those of trade_date, word for word
expiry_date_setter(o, value) ==
    IF ~IsStr(value) THEN Raise(o, "ValueError", MsgDateNotStr)
    ELSE LET p == strptime(value.s)
         IN  IF ~p.ok THEN Raise(o, "ValueError", MsgDateFormat)
             ELSE Done(Store(o, "expiry_date", p.date))

\* S.setter that resets the attribute before it raises
S_setter_ResetsOnError(o, value) ==
    IF ~IsIntOrFloat(value) THEN Raise(Store(o, "S", PyInt(0)), "ValueError", MsgS)
    ELSE Done(Store(o, "S", value))

S_setter(o, value) ==
    IF ~IsIntOrFloat(value) THEN Raise(o, "ValueError", MsgS)
    ELSE Done(Store(o, "S", value))

\* K.setter that assigns self._S
K_setter_WrongAttribute(o, value) ==
    IF ~IsIntOrFloat(value) THEN Raise(o, "ValueError", MsgK)
    ELSE Done(Store(o, "S", value))

K_setter(o, value) ==
    IF ~IsIntOrFloat(value) THEN Raise(o, "ValueError", MsgK)
    ELSE Done(Store(o, "K", value))

r_setter(o, value) ==
    IF ~IsIntOrFloat(value) THEN Raise(o, "ValueError", MsgR)
    ELSE Done(Store(o, "r", value))

sigma_setter(o, value) ==
    IF ~IsIntOrFloat(value) THEN Raise(o, "ValueError", MsgSigma)
    ELSE Done(Store(o, "sigma", value))

DaysPerYear == 365

\* time to expiry in years
T(o) == FDiv(Fin(DaysBetween(o.trade_date, o.expiry_date) * Scale),
             Fin(DaysPerYear * Scale))

\* forward price
F(o) == FMul(AsFloat(o.S), FExp(FMul(AsFloat(o.r), T(o))))

d1(o) ==
    LET sig == AsFloat(o.sigma)
    IN  FDiv(FAdd(FLog(FDiv(F(o), AsFloat(o.K))),
                  FMul(FDiv(FMul(sig, sig), Fin(2 * Scale)), T(o))),
             FMul(sig, FSqrt(T(o))))

d2(o) == FSub(d1(o), FMul(AsFloat(o.sigma), FSqrt(T(o))))

\* call price
C(o) ==
    FMul(FExp(FMul(FNeg(AsFloat(o.r)), T(o))),
         FSub(FMul(F(o), FCdf(d1(o))), FMul(AsFloat(o.K), FCdf(d2(o)))))

\* the put priced by its own closed form instead of from the call
P_ClosedForm(o) ==
    FMul(FExp(FMul(FNeg(AsFloat(o.r)), T(o))),
         FSub(FMul(AsFloat(o.K), FCdf(FNeg(d2(o)))), FMul(F(o), FCdf(FNeg(d1(o))))))

\* put price, from the call price
P(o) ==
    FAdd(FSub(C(o), AsFloat(o.S)),
         FMul(AsFloat(o.K), FExp(FMul(FNeg(AsFloat(o.r)), T(o)))))

\* __str__: the values the f-string renders, in its order
BlackScholes_str(o) ==
    PyStr(<<o.trade_date, o.expiry_date, o.S, d1(o), d2(o), o.K, C(o), P(o)>>)

(***************************************************************************)
(* numpy arrays: slices, elementwise arithmetic with broadcasting, sort    *)
(***************************************************************************)
\* a[:-1] and a[1:]
AllButLast(xs) == IF Len(xs) = 0 THEN <<>> ELSE SubSeq(xs, 1, Len(xs) - 1)
AllButFirst(xs) == IF Len(xs) = 0 THEN <<>> ELSE SubSeq(xs, 2, Len(xs))

\* the functions applied elementwise
MapDiv(xs, ys) == [k \in 1..Len(xs) |-> FDiv(xs[k], ys[k])]
MapLog(xs) == [k \in 1..Len(xs) |-> FLog(xs[k])]
MapExp(xs) == [k \in 1..Len(xs) |-> FExp(xs[k])]
MapSubScalar(xs, c) == [k \in 1..Len(xs) |-> FSub(xs[k], c)]
MapMulScalar(xs, c) == [k \in 1..Len(xs) |-> FMul(xs[k], c)]

\* Two one-dimensional shapes broadcast when they are equal or one is 1.
\* addition that insists on equal shapes
Broadcastable_EqualOnly(m, n) == m = n

Broadcastable(m, n) == m = n \/ m = 1 \/ n = 1

\* xs + ys of two one-dimensional arrays whose shapes broadcast
NpAdd(xs, ys) ==
    IF Len(xs) = Len(ys) THEN [k \in 1..Len(xs) |-> FAdd(xs[k], ys[k])]
    ELSE IF Len(xs) = 1 THEN [k \in 1..Len(ys) |-> FAdd(xs[1], ys[k])]
    ELSE [k \in 1..Len(xs) |-> FAdd(xs[k], ys[1])]

\* The order np.sort puts floats in: ascending, every nan last.
SortsBefore(a, b) == IsNaN(b) \/ (~IsNaN(a) /\ FLe(a, b))

RECURSIVE Insert(_, _)
Insert(a, xs) ==
    IF xs = <<>> THEN <<a>>
    ELSE IF SortsBefore(a, Head(xs)) THEN <<a>> \o xs
    ELSE <<Head(xs)>> \o Insert(a, Tail(xs))

\* the sum returned as it is, unsorted
NpSort_Unsorted(xs) == xs

\* np.sort: a sorted copy
RECURSIVE NpSort(_)
NpSort(xs) == IF xs = <<>> THEN <<>> ELSE Insert(Head(xs), NpSort(Tail(xs)))

(***************************************************************************)
(* class VaR                                                               *)
(***************************************************************************)
VaRFields == <<"market_rate_1", "market_rate_2", "S1", "S2">>

NewVaR ==
    [cls |-> "VaR", market_rate_1 |-> Unset, market_rate_2 |-> Unset,
     S1 |-> Unset, S2 |-> Unset]

MsgRate1 ==
    <<"The", "market", "rates", "of", "currency", "1", "(", "market_rate_1", ")",
      "should", "be", "a", "numpy", "array", ".">>
MsgRate2 ==
    <<"The", "market", "rates", "of", "currency", "2", "(", "market_rate_2", ")",
      "should", "be", "a", "numpy", "array", ".">>
MsgS1 ==
    <<"Total", "value", "of", "holdings", "in", "currency", "1", "(", "S1", ")",
      "should", "be", "integer", "or", "float">>
MsgS2 ==
    <<"Total", "value", "of", "holdings", "in", "currency", "2", "(", "S2", ")",
      "hould", "be", "integer", "or", "float">>

\* what numpy says when it raises
MsgNoLoop == <<"ufunc", "'divide'", "did", "not", "contain", "a", "loop">>
MsgBroadcast == <<"operands", "could", "not", "be", "broadcast", "together">>
MsgIndex == <<"index", "is", "out", "of", "bounds", "for", "axis", "0">>

market_rate_1_setter(o, value) ==
    IF ~IsNdArray(value) THEN Raise(o, "ValueError", MsgRate1)
    ELSE Done(Store(o, "market_rate_1", value))

market_rate_2_setter(o, value) ==
    IF ~IsNdArray(value) THEN Raise(o, "ValueError", MsgRate2)
    ELSE Done(Store(o, "market_rate_2", value))

\* S1.setter that drops a value it does not accept, without raising
S1_setter_IgnoresInvalid(o, value) ==
    IF ~IsIntOrFloat(value) THEN Done(o)
    ELSE Done(Store(o, "S1", value))

S1_setter(o, value) ==
    IF ~IsIntOrFloat(value) THEN Raise(o, "ValueError", MsgS1)
    ELSE Done(Store(o, "S1", value))

S2_setter(o, value) ==
    IF ~IsIntOrFloat(value) THEN Raise(o, "ValueError", MsgS2)
    ELSE Done(Store(o, "S2", value))

\* pnl_vector with the ratio upside down
pnl_vector_Inverted(S, market_rate) ==
    IF market_rate.dtype # "float64"
    THEN [exc |-> "TypeError", msg |-> MsgNoLoop, val |-> PyNone,
          market_rate |-> market_rate]
    ELSE LET ratio == MapDiv(AllButFirst(market_rate.items),
                             AllButLast(market_rate.items))
             ret == MapSubScalar(MapExp(MapLog(ratio)), Fin(Scale))
         IN  [exc |-> "none", msg |-> <<>>,
              val |-> NdArray("float64", MapMulScalar(ret, AsFloat(S))),
              market_rate |-> market_rate]

\* pnl_vector sorting the array it is passed: market_rate.sort()
pnl_vector_SortsInPlace(S, market_rate) ==
    IF market_rate.dtype # "float64"
    THEN [exc |-> "TypeError", msg |-> MsgNoLoop, val |-> PyNone,
          market_rate |-> market_rate]
    ELSE LET ratio == MapDiv(AllButLast(market_rate.items),
                             AllButFirst(market_rate.items))
             ret == MapSubScalar(MapExp(MapLog(ratio)), Fin(Scale))
         IN  [exc |-> "none", msg |-> <<>>,
              val |-> NdArray("float64", MapMulScalar(ret, AsFloat(S))),
              market_rate |-> NdArray("float64", NpSort(market_rate.items))]

\* pnl_vector(S, market_rate): [exc, msg, val, market_rate], market_rate
\* being the array passed as it is after the call (it is read, never
\* written).  Dividing arrays of strings raises numpy's TypeError.
pnl_vector(S, market_rate) ==
    IF market_rate.dtype # "float64"
    THEN [exc |-> "TypeError", msg |-> MsgNoLoop, val |-> PyNone,
          market_rate |-> market_rate]
    ELSE LET ratio == MapDiv(AllButLast(market_rate.items),
                             AllButFirst(market_rate.items))
             ret == MapSubScalar(MapExp(MapLog(ratio)), Fin(Scale))
         IN  [exc |-> "none", msg |-> <<>>,
              val |-> NdArray("float64", MapMulScalar(ret, AsFloat(S))),
              market_rate |-> market_rate]

\* total_pnl: the two PnL vectors, added (numpy raises ValueError when the
\* shapes do not broadcast) and sorted.  p1 and p2 are the outcomes of the
\* two pnl_vector calls, in call order; the arrays they were passed are the
\* object's own.
SumAndSort(o, p1, p2) ==
    IF p1.exc # "none"
    THEN [exc |-> p1.exc, msg |-> p1.msg, val |-> PyNone,
          self |-> [o EXCEPT !.market_rate_1 = p1.market_rate]]
    ELSE IF p2.exc # "none"
    THEN [exc |-> p2.exc, msg |-> p2.msg, val |-> PyNone,
          self |-> [o EXCEPT !.market_rate_1 = p1.market_rate,
                             !.market_rate_2 = p2.market_rate]]
    ELSE IF ~Broadcastable(Len(p1.val.items), Len(p2.val.items))
    THEN [exc |-> "ValueError", msg |-> MsgBroadcast, val |-> PyNone,
          self |-> [o EXCEPT !.market_rate_1 = p1.market_rate,
                             !.market_rate_2 = p2.market_rate]]
    ELSE Return([o EXCEPT !.market_rate_1 = p1.market_rate,
                          !.market_rate_2 = p2.market_rate],
                NdArray("float64", NpSort(NpAdd(p1.val.items, p2.val.items))))

total_pnl(o) ==
    SumAndSort(o, pnl_vector(o.S1, o.market_rate_1), pnl_vector(o.S2, o.market_rate_2))

\* a subscript counted from the end of the vector
Subscript_FromEnd(t, k) ==
    IF t.exc # "none" THEN t
    ELSE IF Len(t.val.items) < k
    THEN [exc |-> "IndexError", msg |-> MsgIndex, val |-> PyNone, self |-> t.self]
    ELSE Return(t.self, t.val.items[Len(t.val.items) - k + 1])

\* var_1d: total_pnl is evaluated for each of the two subscripts; a
\* subscript past the end raises IndexError.
\* t[k] (0-based) of the outcome t of total_pnl
Subscript(t, k) ==
    IF t.exc # "none" THEN t
    ELSE IF Len(t.val.items) < k + 1
    THEN [exc |-> "IndexError", msg |-> MsgIndex, val |-> PyNone, self |-> t.self]
    ELSE Return(t.self, t.val.items[k + 1])

\* (0.4 * a) + (0.6 * b) of the outcomes a and b of the two subscripts
Interpolate(a, b) ==
    IF a.exc # "none" THEN a
    ELSE IF b.exc # "none" THEN b
    ELSE Return(b.self, FAdd(FMul(Fin((4 * Scale) \div 10), a.val),
                             FMul(Fin((6 * Scale) \div 10), b.val)))

SecondSubscript(a) == IF a.exc # "none" THEN a ELSE Subscript(total_pnl(a.self), 2)

InterpolateFrom(a) == Interpolate(a, SecondSubscript(a))

var_1d(o) == InterpolateFrom(Subscript(total_pnl(o), 1))

\* __str__: S1, S2 and var_1d as the f-string renders them
Render(o, v) ==
    IF v.exc # "none" THEN v ELSE Return(v.self, PyStr(<<o.S1, o.S2, v.val>>))

VaR_str(o) == Render(o, var_1d(o))

(***************************************************************************)
(* Dispatch: the setter of a field, the constructor, the queries           *)
(***************************************************************************)
Setter(f, o, value) ==
    CASE f = "trade_date" -> trade_date_setter(o, value)
      [] f = "expiry_date" -> expiry_date_setter(o, value)
      [] f = "S" -> S_setter(o, value)
      [] f = "K" -> K_setter(o, value)
      [] f = "r" -> r_setter(o, value)
      [] f = "sigma" -> sigma_setter(o, value)
      [] f = "market_rate_1" -> market_rate_1_setter(o, value)
      [] f = "market_rate_2" -> market_rate_2_setter(o, value)
      [] f = "S1" -> S1_setter(o, value)
      [] f = "S2" -> S2_setter(o, value)

\* The assignments of __init__, in order; the first that raises ends it.
RECURSIVE InitSeq(_, _, _)
InitSeq(res, a, fs) ==
    IF res.exc # "none" \/ fs = <<>> THEN res
    ELSE InitSeq(Setter(Head(fs), res.self, a[Head(fs)]), a, Tail(fs))

BlackScholes_init(a) == InitSeq(Done(NewBlackScholes), a, BSFields)

VaR_init(a) == InitSeq(Done(NewVaR), a, VaRFields)

FieldsOf(cls) == IF cls = "BlackScholes" THEN BSFields ELSE VaRFields

Queries(cls) ==
    IF cls = "BlackScholes" THEN {"T", "F", "d1", "d2", "C", "P", "__str__"}
    ELSE {"pnl_vector", "total_pnl", "var_1d", "__str__"}

\* Evaluating query q of object o (pnl_vector with the arguments a)
Eval(o, q, a) ==
    IF o.cls = "BlackScholes"
    THEN CASE q = "T" -> Return(o, T(o))
           [] q = "F" -> Return(o, F(o))
           [] q = "d1" -> Return(o, d1(o))
           [] q = "d2" -> Return(o, d2(o))
           [] q = "C" -> Return(o, C(o))
           [] q = "P" -> Return(o, P(o))
           [] q = "__str__" -> Return(o, BlackScholes_str(o))
    ELSE CASE q = "pnl_vector" ->
                [self |-> o] @@ pnl_vector(a.S, a.market_rate)
           [] q = "total_pnl" -> total_pnl(o)
           [] q = "var_1d" -> var_1d(o)
           [] q = "__str__" -> VaR_str(o)

(***************************************************************************)
(* The values a caller passes                                              *)
(***************************************************************************)
DateA == <<"2", "0", "2", "2", "-", "1", "1", "-", "2", "3">>
DateB == <<"2", "0", "2", "3", "-", "0", "5", "-", "1", "0">>
DateLongYear == <<"2", "0", "2", "2", "2", "-", "1", "1", "-", "2", "3">>
DateNoSuchDay == <<"2", "0", "2", "3", "-", "0", "2", "-", "3", "0">>
Invalid == <<"i", "n", "v", "a", "l", "i", "d">>

DateValues ==
    {PyStr(DateA), PyStr(DateB), PyStr(DateLongYear), PyStr(DateNoSuchDay),
     PyStr(Invalid), PyInt(20221123)}

NotNumbers == {PyStr(Invalid), PyNone}

\* a rate given in hundredths
Rate(h) == Fin((h * Scale) \div 100)

CycleA == <<110, 100, 125, 100, 20, 25>>
CycleG == <<100, 125, 100, 80, 100, 110>>
CycleN == <<100, -100, 0, 0, 200, 100>>

\* the float64 array of the first n rates of a cycle
Series(cycle, n) ==
    NdArray("float64", [k \in 1..n |-> Rate(cycle[((k - 1) % Len(cycle)) + 1])])

\* np.array of strings, and a plain list of floats
StrArray ==
    NdArray("str", <<PyStr(<<"a">>), PyStr(<<"b">>), PyStr(<<"c">>), PyStr(<<"d">>)>>)
RateList == PyList(Series(CycleA, 4).items)

SValues == {PyInt(19), PyInt(17)} \cup NotNumbers
KValues == {PyInt(17), PyInt(15)} \cup NotNumbers
rValues == {Fin(5)} \cup NotNumbers
sigmaValues == {Fin(300), PyInt(0)} \cup NotNumbers
Rate1Values ==
    {Series(CycleA, n) : n \in 0..MaxLen}
      \cup {Series(CycleN, MaxLen), StrArray, RateList, PyNone}
Rate2Values ==
    {Series(CycleG, n) : n \in {0, 2, 3, MaxLen}} \cup {StrArray, PyNone}
S1Values == {PyInt(10), Fin(2500)} \cup NotNumbers
S2Values == {PyInt(10), Fin(-2500)} \cup NotNumbers

Values(f) ==
    CASE f \in {"trade_date", "expiry_date"} -> DateValues
      [] f = "S" -> SValues
      [] f = "K" -> KValues
      [] f = "r" -> rValues
      [] f = "sigma" -> sigmaValues
      [] f = "market_rate_1" -> Rate1Values
      [] f = "market_rate_2" -> Rate2Values
      [] f = "S1" -> S1Values
      [] f = "S2" -> S2Values

Range(fs) == {fs[k] : k \in 1..Len(fs)}

\* Constructor arguments: those of the test fixture, with one of them replaced
BaseBS ==
    [cls |-> "BlackScholes", trade_date |-> PyStr(DateA), expiry_date |-> PyStr(DateB),
     S |-> PyInt(19), K |-> PyInt(17), r |-> Fin(5), sigma |-> Fin(300)]

BaseVaR ==
    [cls |-> "VaR", market_rate_1 |-> Series(CycleA, MaxLen),
     market_rate_2 |-> Series(CycleG, MaxLen), S1 |-> PyInt(10), S2 |-> PyInt(10)]

OneReplaced(base, fs) ==
    UNION {{[base EXCEPT ![f] = v] : v \in Values(f)} : f \in Range(fs)}

BSArgs ==
    OneReplaced(BaseBS, BSFields)
      \cup {[BaseBS EXCEPT !.r = Fin(300), !.sigma = PyStr(Invalid)],
            [BaseBS EXCEPT !.expiry_date = PyNone, !.K = PyNone]}

VaRArgs ==
    OneReplaced(BaseVaR, VaRFields)
      \cup {[BaseVaR EXCEPT !.market_rate_2 = RateList, !.S1 = PyNone]}

\* pnl_vector is called with a position and a rate array of the caller's
PnlArgs ==
    {[S |-> PyInt(10), market_rate |-> mr] : mr \in {v \in Rate1Values : IsNdArray(v)}}
      \cup {[S |-> Fin(-2500), market_rate |-> Series(CycleA, MaxLen)]}

ArgsOf(cls, q) ==
    IF cls = "VaR" /\ q = "pnl_vector" THEN PnlArgs ELSE {PyNone}

(***************************************************************************)
(* State                                                                   *)
(***************************************************************************)
VARIABLES
    obj,    \* obj[i]: the object reference i holds, its attributes by name
    hist,   \* hist[i]: per attribute, the value last assigned and accepted
    out     \* the last operation: what was called, with what, and its outcome

vars == <<obj, hist, out>>

NoObject == [cls |-> "none"]

Init ==
    /\ obj = [i \in Inst |-> NoObject]
    /\ hist = [i \in Inst |-> NoObject]
    /\ out = [op |-> "start", inst |-> 0, name |-> "", arg |-> PyNone,
              exc |-> "none", msg |-> <<>>, val |-> PyNone]

\* The effect of an operation on reference i: what it leaves in obj[i], in the
\* record of accepted values, and what the caller sees.
Constructed(i, a, res) ==
    /\ obj' = IF res.exc = "none" THEN [obj EXCEPT ![i] = res.self] ELSE obj
    /\ hist' = IF res.exc = "none" THEN [hist EXCEPT ![i] = a] ELSE hist
    /\ out' = [op |-> "init", inst |-> i, name |-> a.cls, arg |-> a,
               exc |-> res.exc, msg |-> res.msg, val |-> PyNone]

\* i = Cls(*a): on an exception the reference is not bound
Construct(i, a) ==
    /\ obj[i].cls = "none"
    /\ Constructed(i, a, IF a.cls = "BlackScholes" THEN BlackScholes_init(a)
                                                    ELSE VaR_init(a))

NewBlackScholes_(i) == \E a \in BSArgs : Construct(i, a)

NewVaR_(i) == \E a \in VaRArgs : Construct(i, a)

Assigned(i, f, value, res) ==
    /\ obj' = [obj EXCEPT ![i] = res.self]
    /\ hist' = IF res.exc = "none" THEN [hist EXCEPT ![i][f] = value] ELSE hist
    /\ out' = [op |-> "set", inst |-> i, name |-> f, arg |-> value,
               exc |-> res.exc, msg |-> res.msg, val |-> PyNone]

\* obj[i].f = value
SetAttr(i, f, value) ==
    /\ obj[i].cls # "none"
    /\ Assigned(i, f, value, Setter(f, obj[i], value))

Assign(i) ==
    \E f \in Range(FieldsOf(obj[i].cls)) : \E value \in Values(f) : SetAttr(i, f, value)

Evaluated(i, q, a, res) ==
    /\ obj' = [obj EXCEPT ![i] = res.self]
    /\ hist' = hist
    /\ out' = [op |-> "get", inst |-> i, name |-> q, arg |-> a,
               exc |-> res.exc, msg |-> res.msg, val |-> res.val]

\* obj[i].q(), obj[i].q, str(obj[i])
GetAttr(i, q, a) ==
    /\ obj[i].cls # "none"
    /\ Evaluated(i, q, a, Eval(obj[i], q, a))

Query(i) ==
    \E q \in Queries(obj[i].cls) : \E a \in ArgsOf(obj[i].cls, q) : GetAttr(i, q, a)

Next == NewBlackScholes_(1) \/ NewVaR_(1) \/ Assign(1) \/ Query(1)

Spec == Init /\ [][Next]_vars

(***************************************************************************)
(* Two objects side by side: both references are bound from the start, and *)
(* either object is queried or has its position size assigned.             *)
(***************************************************************************)
PairArgs ==
    {BaseBS, [BaseBS EXCEPT !.expiry_date = PyStr(DateA)],
     BaseVaR, [BaseVaR EXCEPT !.market_rate_1 = Series(CycleN, MaxLen)]}

Bound(a) == IF a.cls = "BlackScholes" THEN BlackScholes_init(a).self ELSE VaR_init(a).self

InitPair ==
    /\ hist \in [Inst -> PairArgs]
    /\ obj = [i \in Inst |-> Bound(hist[i])]
    /\ out = [op |-> "start", inst |-> 0, name |-> "", arg |-> PyNone,
              exc |-> "none", msg |-> <<>>, val |-> PyNone]

AssignSize(i) ==
    \E f \in Range(FieldsOf(obj[i].cls)) \cap {"S", "S1"} :
        \E value \in Values(f) : SetAttr(i, f, value)

\* the queries, pnl_vector being called with the series of the other object
QueryEither(i) ==
    \E q \in Queries(obj[i].cls) :
        \E a \in IF q = "pnl_vector"
                 THEN {[S |-> PyInt(10), market_rate |-> hist[j].market_rate_1] :
                          j \in {k \in Inst : hist[k].cls = "VaR"}}
                 ELSE {PyNone} :
            GetAttr(i, q, a)

NextPair == \E i \in Inst : QueryEither(i) \/ AssignSize(i)

SpecPair == InitPair /\ [][NextPair]_vars

(***************************************************************************)
(* Vocabulary of the properties                                            *)
(***************************************************************************)
AllFields == Range(BSFields) \cup Range(VaRFields)

\* the object the accepted values describe: the dates parsed, the rest as given
FromAccepted(h) ==
    IF h.cls = "BlackScholes"
    THEN [h EXCEPT !.trade_date = strptime(h.trade_date.s).date,
                   !.expiry_date = strptime(h.expiry_date.s).date]
    ELSE h

\* what the caller observes of an outcome
Seen(res) == [exc |-> res.exc, msg |-> res.msg, val |-> res.val]

\* the queries of a class that take no argument
Derived(cls) == Queries(cls) \ {"pnl_vector"}

IsFloatArray(v) == v.kind = "ndarray" /\ v.dtype = "float64"

\* the number of entries of the PnL vector of a series of n rates
PnlLen(n) == IF n = 0 THEN 0 ELSE n - 1

Count(v, xs) == Cardinality({k \in 1..Len(xs) : xs[k] = v})

IsPermutation(xs, ys) ==
    /\ Len(xs) = Len(ys)
    /\ \A k \in 1..Len(xs) : Count(xs[k], xs) = Count(xs[k], ys)

\* the elementwise sum of the two PnL vectors of o, both of the same length
PnlSums(o) ==
    [k \in 1..PnlLen(Len(o.market_rate_1.items)) |->
        FAdd(pnl_vector(o.S1, o.market_rate_1).val.items[k],
             pnl_vector(o.S2, o.market_rate_2).val.items[k])]

\* a VaR whose two series are float arrays of one length, at least 4
EqualSeries(o) ==
    /\ o.cls = "VaR"
    /\ IsFloatArray(o.market_rate_1) /\ IsFloatArray(o.market_rate_2)
    /\ Len(o.market_rate_1.items) = Len(o.market_rate_2.items)
    /\ Len(o.market_rate_1.items) >= 4

(***************************************************************************)
(* C1.  An assignment a setter rejects changes nothing: after it every     *)
(* field of the object, and every derived result (T, F, d1, d2, C, P and   *)
(* the rendering; total_pnl, var_1d), is what it was before the call.      *)
(***************************************************************************)
SameResults(before, after) ==
    \A q \in Derived(before.cls) :
        Seen(Eval(after, q, PyNone)) = Seen(Eval(before, q, PyNone))

RejectedAssignmentChangesNothing ==
    [][(out'.op = "set" /\ out'.exc # "none")
          => /\ obj' = obj
             /\ hist' = hist
             /\ SameResults(obj[out'.inst], obj'[out'.inst])]_vars

\* an assignment to S was rejected on an object whose K was assigned before
RejectedAssignmentSeen ==
    /\ out.op = "set" /\ out.name = "S" /\ out.exc = "ValueError"
    /\ obj[1].cls = "BlackScholes" /\ obj[1].K = PyInt(15) /\ obj[1].S = PyInt(17)

(***************************************************************************)
(* C2.  Validation runs on every assignment, in the constructor and later: *)
(* a date that is not a string or does not parse as %Y-%m-%d, an S, K, r,  *)
(* sigma, S1 or S2 that is not an int or a float, and a market-rate series *)
(* that is not of the array type (numpy.ndarray; a list is not) each raise *)
(* ValueError, and no bound object holds a value that would be rejected.   *)
(***************************************************************************)
Conforms(f, value) ==
    CASE f \in {"trade_date", "expiry_date"} -> IsStr(value) /\ strptime(value.s).ok
      [] f \in {"S", "K", "r", "sigma", "S1", "S2"} -> value.kind \in {"int", "float"}
      [] f \in {"market_rate_1", "market_rate_2"} -> value.kind = "ndarray"

\* what a field holds once a conforming value was assigned: the parsed date,
\* the number, the array
Holds(f, held) ==
    CASE f \in {"trade_date", "expiry_date"} -> held.kind = "datetime"
      [] f \in {"S", "K", "r", "sigma", "S1", "S2"} -> held.kind \in {"int", "float"}
      [] f \in {"market_rate_1", "market_rate_2"} -> held.kind = "ndarray"

NonConformingValueRaises ==
    /\ (out.op = "set" /\ ~Conforms(out.name, out.arg)) => out.exc = "ValueError"
    /\ (out.op = "init" /\ \E f \in Range(FieldsOf(out.name)) : ~Conforms(f, out.arg[f]))
          => out.exc = "ValueError"
    /\ \A i \in Inst : obj[i].cls # "none" =>
          \A f \in Range(FieldsOf(obj[i].cls)) : Holds(f, obj[i][f])

\* a list was assigned to market_rate_1 of an object that had accepted a new S1
NonConformingSeen ==
    /\ out.op = "set" /\ out.name = "market_rate_1" /\ out.arg = RateList
    /\ out.exc = "ValueError"
    /\ obj[1].cls = "VaR" /\ obj[1].S1 = Fin(2500)

(***************************************************************************)
(* C3.  No derived quantity is stale: whatever a query returns is computed *)
(* from the values of the last accepted assignment of each field, whatever *)
(* accepted and rejected assignments and queries came before.              *)
(***************************************************************************)
ResultsAreCurrent ==
    (out.op = "get" /\ out.name # "pnl_vector") =>
        Seen(Eval(FromAccepted(hist[out.inst]), out.name, out.arg))
          = [exc |-> out.exc, msg |-> out.msg, val |-> out.val]

\* P() was asked after S and K had both been assigned anew
CurrentAfterAssignments ==
    /\ out.op = "get" /\ out.name = "P" /\ out.exc = "none"
    /\ hist[1].S = PyInt(17) /\ hist[1].K = PyInt(15)

(***************************************************************************)
(* C6.  The message of every validation error names the field that was     *)
(* assigned, and names no other field.                                     *)
(***************************************************************************)
Names(msg, f) == \E k \in 1..Len(msg) : msg[k] = f

MessageNamesTheField ==
    (out.op = "set" /\ out.exc = "ValueError") =>
        \A f \in AllFields : Names(out.msg, f) <=> f = out.name

(***************************************************************************)
(* C4.  Put-call parity.  P() is computed from the call price, so it is    *)
(* C() - S + K * exp(-r * T()) of the same state; the two compare equal    *)
(* whenever C() is a number, and compare unequal when C() is nan, as it is *)
(* when the expiry is not after the trade date.                            *)
(***************************************************************************)
ParityValue(o) ==
    FAdd(FSub(C(o), AsFloat(o.S)),
         FMul(AsFloat(o.K), FExp(FMul(FNeg(AsFloat(o.r)), T(o)))))

Ascending(xs) == \A k \in 1..(Len(xs) - 1) : FLe(xs[k], xs[k + 1])

AllFinite(xs) == \A k \in 1..Len(xs) : IsFin(xs[k])

Weighted(t) ==
    FAdd(FMul(Fin((4 * Scale) \div 10), t[2]), FMul(Fin((6 * Scale) \div 10), t[3]))

SortedSumAndQuantile(o) ==
    /\ out.exc = "none"
    /\ out.name = "total_pnl" =>
          /\ Ascending(out.val.items)
          /\ IsPermutation(out.val.items, PnlSums(o))
    /\ out.name = "var_1d" => FEq(out.val, Weighted(total_pnl(o).val.items))

\* C5 as stated: for every pair of equal-length series of at least 4 rates
TotalPnlSortedForEverySeries ==
    (out.op = "get" /\ out.name \in {"total_pnl", "var_1d"}
       /\ EqualSeries(obj[out.inst]))
        => SortedSumAndQuantile(obj[out.inst])

\* C5: the same, for series whose summed PnL entries are all finite
TotalPnlSorted ==
    (out.op = "get" /\ out.name \in {"total_pnl", "var_1d"}
       /\ EqualSeries(obj[out.inst]) /\ AllFinite(PnlSums(obj[out.inst])))
        => SortedSumAndQuantile(obj[out.inst])

\* total_pnl returned a vector that is not the sum in its original order
TotalPnlSeen ==
    /\ out.op = "get" /\ out.name = "total_pnl" /\ out.exc = "none"
    /\ EqualSeries(obj[1]) /\ AllFinite(PnlSums(obj[1]))
    /\ out.val.items # PnlSums(obj[1])

(***************************************************************************)
(* C7.  Series of different lengths.  total_pnl (and var_1d with it) fails *)
(* with numpy's broadcast ValueError exactly when the two PnL vectors,     *)
(* of max(n - 1, 0) entries each, differ in length and neither has one     *)
(* entry; a one-entry vector is added to every entry of the other.         *)
(***************************************************************************)
FloatSeries(o) ==
    o.cls = "VaR" /\ IsFloatArray(o.market_rate_1) /\ IsFloatArray(o.market_rate_2)

AlignmentError == out.exc = "ValueError" /\ out.msg = MsgBroadcast

\* C7 as stated: every pair of lengths that differ fails
MismatchAlwaysFails ==
    (out.op = "get" /\ out.name \in {"total_pnl", "var_1d"}
       /\ FloatSeries(obj[out.inst])
       /\ Len(obj[out.inst].market_rate_1.items) # Len(obj[out.inst].market_rate_2.items))
        => AlignmentError

Unalignable(m, n) == m # n /\ m # 1 /\ n # 1

\* C7: the alignment error is raised exactly for PnL vectors that do not broadcast
MismatchFailsUnlessBroadcast ==
    (out.op = "get" /\ out.name \in {"total_pnl", "var_1d"} /\ FloatSeries(obj[out.inst]))
        => (AlignmentError <=>
              Unalignable(PnlLen(Len(obj[out.inst].market_rate_1.items)),
                          PnlLen(Len(obj[out.inst].market_rate_2.items))))

\* total_pnl failed on series of 4 and of 5 rates
MismatchSeen ==
    /\ out.op = "get" /\ out.name = "total_pnl" /\ AlignmentError
    /\ Len(obj[1].market_rate_1.items) = 4 /\ Len(obj[1].market_rate_2.items) = 5

(***************************************************************************)
(* C9.  A VaR is constructed from series of any length; var_1d fails with  *)
(* an IndexError when the total-PnL vector has fewer than 3 entries and    *)
(* returns a float when it has at least 3.                                 *)
(***************************************************************************)
VaROfAnyLength ==
    /\ (out.op = "init" /\ out.name = "VaR"
          /\ \A f \in Range(VaRFields) : Conforms(f, out.arg[f]))
        => out.exc = "none"
    /\ (out.op = "get" /\ out.name = "var_1d" /\ total_pnl(obj[out.inst]).exc = "none")
        => IF Len(total_pnl(obj[out.inst]).val.items) < 3
           THEN out.exc = "IndexError" /\ out.msg = MsgIndex
           ELSE out.exc = "none" /\ out.val.kind = "float"

\* var_1d failed on two series of 3 rates, whose total PnL has 2 entries
ShortSeriesSeen ==
    /\ out.op = "get" /\ out.name = "var_1d" /\ out.exc = "IndexError"
    /\ Len(obj[1].market_rate_1.items) = 3 /\ Len(obj[1].market_rate_2.items) = 3

(***************************************************************************)
(* C10.  pnl_vector(S, r) of a series r of n rates has max(n - 1, 0)       *)
(* entries.  Entry i is (exp(ln(r[i] / r[i+1])) - 1) * S: nan when the     *)
(* ratio is negative or nan, (r[i] / r[i+1] - 1) * S itself when the ratio *)
(* is 0 or infinite, and otherwise within the rounding error of the        *)
(* exp(ln(.)) round trip of it.                                            *)
(***************************************************************************)
Plain(a, b, S) == FMul(FSub(FDiv(a, b), Fin(Scale)), AsFloat(S))

AllPositive(xs) == \A k \in 1..Len(xs) : IsFin(xs[k]) /\ xs[k].n > 0

\* C10 as stated, for the series of at least one rate, all rates positive:
\* n - 1 entries, entry i equal to (r[i] / r[i+1] - 1) * S
PnlVectorIsPlainFormula ==
    (out.op = "get" /\ out.name = "pnl_vector"
       /\ IsFloatArray(out.arg.market_rate)
       /\ Len(out.arg.market_rate.items) >= 1
       /\ AllPositive(out.arg.market_rate.items))
        => /\ out.exc = "none"
           /\ Len(out.val.items) = Len(out.arg.market_rate.items) - 1
           /\ \A k \in 1..Len(out.val.items) :
                 FEq(out.val.items[k],
                     Plain(out.arg.market_rate.items[k],
                           out.arg.market_rate.items[k + 1], out.arg.S))

\* the error a round trip of a finite positive ratio may leave in an entry:
\* one unit in the last place of the logarithm, scaled by the ratio and by S
Tolerance(ratio, S) == (((ratio.n \div Scale) + 2) * Abs(AsFloat(S).n)) \div Scale + 1

EntryOf(entry, ratio, plain, S) ==
    IF IsNaN(ratio) \/ ratio.n < 0 THEN IsNaN(entry)
    ELSE IF IsInf(ratio) \/ IsZero(ratio) THEN entry = plain
    ELSE IsFin(entry) /\ Abs(entry.n - plain.n) <= Tolerance(ratio, S)

\* C10: the length and the entries of pnl_vector, for every float series
PnlVectorWithinRounding ==
    (out.op = "get" /\ out.name = "pnl_vector" /\ IsFloatArray(out.arg.market_rate))
        => /\ out.exc = "none"
           /\ Len(out.val.items) = PnlLen(Len(out.arg.market_rate.items))
           /\ \A k \in 1..Len(out.val.items) :
                 EntryOf(out.val.items[k],
                         FDiv(out.arg.market_rate.items[k],
                              out.arg.market_rate.items[k + 1]),
                         Plain(out.arg.market_rate.items[k],
                               out.arg.market_rate.items[k + 1], out.arg.S),
                         out.arg.S)

\* pnl_vector returned 4 entries for 5 positive rates, one of them not the
\* plain formula's value
RoundTripSeen ==
    /\ out.op = "get" /\ out.name = "pnl_vector" /\ out.exc = "none"
    /\ AllPositive(out.arg.market_rate.items)
    /\ Len(out.val.items) = 4
    /\ \E k \in 1..4 :
          out.val.items[k] # Plain(out.arg.market_rate.items[k],
                                   out.arg.market_rate.items[k + 1], out.arg.S)

(***************************************************************************)
(* C8.  Queries are read-only and deterministic: a query changes no field  *)
(* of any object (the stored rate series keep their order and contents),   *)
(* evaluating it again at once returns the identical result, and it does   *)
(* not change what any query of the other object returns.                  *)
(***************************************************************************)
QueriesChangeNothing ==
    [][out'.op = "get"
          => /\ obj' = obj
             /\ hist' = hist
             /\ Seen(Eval(obj'[out'.inst], out'.name, out'.arg))
                  = [exc |-> out'.exc, msg |-> out'.msg, val |-> out'.val]
             /\ \A j \in Inst \ {out'.inst} : SameResults(obj[j], obj'[j])]_vars

\* total_pnl of the second of two VaR objects returned a vector
QuerySeen ==
    /\ out.op = "get" /\ out.inst = 2 /\ out.name = "total_pnl" /\ out.exc = "none"
    /\ obj[1].cls = "VaR" /\ obj[1] # obj[2]
    /\ Len(out.val.items) = MaxLen - 1

====
